---- MODULE Spec2Model ----
(***************************************************************************)
(* Model of the change-detection scheduler (utils/sync_manager.py) and of  *)
(* the batch fetch/extract pipeline (utils/batch_processor.py) it drives.  *)
(*                                                                         *)
(* One SyncManager owns one BatchProcessor.  start_sync_service loops over *)
(* run_sync_cycle; a cycle gathers one _process_config task per due        *)
(* config; a task runs process_urls, which gathers one process_url task    *)
(* per URL of the current chunk.  asyncio tasks interleave only at awaits: *)
(* every action below is the code between two awaits of one task.  The     *)
(* database is PostgreSQL through psycopg2: the writes of a `with conn`    *)
(* block become visible at its commit, an exception rolls them back, and   *)
(* NOW() is the start time of the transaction.                             *)
(*                                                                         *)
(* Strings are sequences of tokens: "Error:" is the token the consumers    *)
(* test with startswith, every other token stands for a run of text.       *)
(* Time is counted in minutes.                                             *)
(***************************************************************************)
EXTENDS Integers, Sequences, FiniteSets, TLC

VARIABLES
    now,        \* the clock, in minutes
    configs,    \* table sync_configurations: id -> row
    tracked,    \* table tracked_urls: config id -> (url -> row)
    history,    \* table sync_history: config id -> its records, in order
    sink,       \* the calls of Formula_GenerateSubPage: config id -> calls
    batch_size, \* BatchProcessor.batch_size of SyncManager.batch_processor
    max_concurrent, \* BatchProcessor.max_concurrent
    progress,   \* BatchProcessor.progress: <<>> is None, <<r>> a BatchProgress
    sched,      \* the loop of start_sync_service: where it is, and its cycle
    passes,     \* the _process_config tasks: <<cycle, config id>> -> task
    request     \* one call of process_url outside the service, and its result

vars == <<now, configs, tracked, history, sink, batch_size, max_concurrent,
          progress, sched, passes, request>>

-----------------------------------------------------------------------------
(* Bounds of the model.                                                    *)

NumConfigs == 2
MaxUrls == 2
MaxTime == 2
MaxCycles == 2
MaxInterval == 1
MaxBatchSize == 2
MaxMaxConcurrent == 1
MaxAddLen == 2
MaxRows == 2
MaxFilters == 2

Configs == 1..NumConfigs
Urls == 1..MaxUrls
Intervals == 1..MaxInterval

(* asyncio.sleep(60): the loop sleeps one minute between two cycles.       *)
SleepMinutes == 1

-----------------------------------------------------------------------------
(* Values.                                                                 *)

\* An optional timestamp or digest: <<>> is NULL / None.
NULL == <<>>

Some(v) == <<v>>

\* What one session.get(url) and the extraction of its body come to: the
\* call raises, or a response arrives with a status and, for a 200, the text
\* the selectors or trafilatura extract from it (<<>>: nothing extracted).
Pending == [kind |-> "pending", status |-> "", text |-> <<>>]

Raise(msg) == [kind |-> "raise", status |-> msg, text |-> <<>>]

Response(status, text) == [kind |-> "response", status |-> status, text |-> text]

Responses ==
    { Response("200", <<"a">>),
      Response("200", <<"b">>),
      Response("200", <<"Error:", "a">>),
      Response("200", <<>>),
      Response("500", <<>>),
      Raise("timeout") }

\* str.startswith
StartsWith(s, prefix) ==
    /\ Len(s) >= Len(prefix)
    /\ SubSeq(s, 1, Len(prefix)) = prefix

IsErrorString(s) == StartsWith(s, <<"Error:">>)

NoContentFound == <<"No content found">>

\* hashlib.sha256(content.encode()).hexdigest(): a digest that differs from
\* the content and is taken to be collision free.
_compute_content_hash(content) == <<"sha256">> \o content

-----------------------------------------------------------------------------
(* BatchProcessor.process_url, the part between the response and the       *)
(* return: a pure function of the response and of the keyword arguments.   *)

Lower(tok) == IF tok = "A" THEN "a" ELSE IF tok = "B" THEN "b" ELSE tok

LowerSeq(s) == [k \in 1..Len(s) |-> Lower(s[k])]

\* sub in s, for strings
Contains(sub, s) ==
    \E k \in 0..(Len(s) - Len(sub)) : SubSeq(s, k + 1, k + Len(sub)) = sub

\* One entry of content_filters: its kind, its value as text, and what
\* int(filter_value) gives (valid = FALSE: int() raises ValueError).
Filter(type, text, n, valid) == [type |-> type, text |-> text, n |-> n, valid |-> valid]

RECURSIVE ApplyFilters(_, _)
\* The loop over content_filters.items(), in the mapping's own order: the
\* result of the first entry that rejects, <<>> when the loop falls through.
ApplyFilters(text_content, content_filters) ==
    IF content_filters = <<>> THEN <<>>
    ELSE LET f == Head(content_filters)
             IsLen == f.type \in {"min_length", "max_length"}
         IN  IF IsLen /\ ~f.valid
                 THEN <<"raise", "invalid literal for int()">>
             ELSE IF f.type = "min_length" /\ Len(text_content) < f.n
                 THEN <<"Content filtered:", "Too short">>
             ELSE IF f.type = "max_length" /\ Len(text_content) > f.n
                 THEN <<"Content filtered:", "Too long">>
             ELSE IF f.type = "contains" /\ ~Contains(LowerSeq(f.text), LowerSeq(text_content))
                 THEN <<"Content filtered:", "Does not contain">>
             ELSE IF f.type = "excludes" /\ Contains(LowerSeq(f.text), LowerSeq(text_content))
                 THEN <<"Content filtered:", "Contains excluded text">>
             ELSE ApplyFilters(text_content, Tail(content_filters))

\* The except clause returning the bare message: return {url: str(e)}.
ErrorResultBare(msg) == <<msg>>

\* The except clause of process_url.
ErrorResult(msg) == <<"Error:", msg>>

\* process_url with the loop over the filters placed before the search
\* query check.
process_url_filters_first(resp, search_query, content_filters) ==
    IF resp.kind = "raise" THEN ErrorResult(resp.status)
    ELSE IF resp.status # "200" THEN <<"Error:", "HTTP", resp.status>>
    ELSE LET text_content == IF resp.text = <<>> THEN NoContentFound ELSE resp.text
             found == text_content # NoContentFound
             filtered == IF content_filters # <<>> /\ found
                             THEN ApplyFilters(text_content, content_filters)
                             ELSE <<>>
         IN  IF filtered # <<>> /\ filtered[1] = "raise" THEN ErrorResult(filtered[2])
             ELSE IF filtered # <<>> THEN filtered
             ELSE IF search_query # <<>> /\ found
                   /\ ~Contains(LowerSeq(search_query), LowerSeq(text_content))
                 THEN <<"Content filtered:", "Does not match search query">>
             ELSE text_content

\* The string process_url puts in its one-entry dict.  search_query and
\* content_filters are <<>> when not given (None, or empty: both falsy).
process_url(resp, search_query, content_filters) ==
    IF resp.kind = "raise" THEN ErrorResult(resp.status)
    ELSE IF resp.status # "200" THEN <<"Error:", "HTTP", resp.status>>
    ELSE LET text_content == IF resp.text = <<>> THEN NoContentFound ELSE resp.text
             found == text_content # NoContentFound
             filtered == IF content_filters # <<>> /\ found
                             THEN ApplyFilters(text_content, content_filters)
                             ELSE <<>>
         IN  IF search_query # <<>> /\ found
                   /\ ~Contains(LowerSeq(search_query), LowerSeq(text_content))
                 THEN <<"Content filtered:", "Does not match search query">>
             ELSE IF filtered = <<>> THEN text_content
             ELSE IF filtered[1] = "raise" THEN ErrorResult(filtered[2])
             ELSE filtered

\* No call of process_url outside the service.
NoRequest ==
    [pc |-> "none", resp |-> Pending, content_selector |-> <<>>,
     search_query |-> <<>>, content_filters |-> <<>>, fetched |-> FALSE,
     result |-> <<>>]

-----------------------------------------------------------------------------
(* BatchProcessor.process_urls and process_batch: the chunks, the merge.   *)

Min(a, b) == IF a <= b THEN a ELSE b

Range(s) == { s[k] : k \in 1..Len(s) }

\* len(urls) // batch_size + (1 if len(urls) % batch_size else 0)
TotalBatches(n, size) == (n \div size) + (IF n % size # 0 THEN 1 ELSE 0)

\* BatchProgress(total_urls=len(urls), total_batches=...): the dataclass
\* defaults the other counters to 0.  `run` names the run that built it.
BatchProgress(run, n, size) ==
    [run |-> run, total_urls |-> n, processed_urls |-> 0, failed_urls |-> 0,
     current_batch |-> 0, total_batches |-> TotalBatches(n, size)]

\* urls[i:i + batch_size], as positions of urls (i counts from 0)
ChunkPositions(n, i, size) == (i + 1)..Min(i + size, n)

\* The keys of a dict filled from urls in order: first occurrences.
RECURSIVE DictKeys(_)
DictKeys(urls) ==
    IF urls = <<>> THEN <<>>
    ELSE LET front == DictKeys(SubSeq(urls, 1, Len(urls) - 1))
             last == urls[Len(urls)]
         IN  IF last \in Range(front) THEN front ELSE Append(front, last)

\* results after every chunk was merged with dict.update: for a URL given
\* twice the entry of its last position stays.
MergedResults(urls, resp) ==
    [u \in Range(urls) |->
        LET last == CHOOSE k \in 1..Len(urls) :
                        /\ urls[k] = u
                        /\ \A j \in 1..Len(urls) : urls[j] = u => j <= k
        IN  process_url(resp[last], <<>>, <<>>)]

-----------------------------------------------------------------------------
(* The tables, and the queries the code runs on them.                      *)

\* A row of tracked_urls as add_urls_to_config inserts it.
NewTrackedRow == [last_content_hash |-> NULL, last_sync |-> NULL]

\* The due query with >= for >.
DueAtBoundary(row, t) ==
    /\ row.active
    /\ \/ row.last_sync = NULL
       \/ t - row.last_sync[1] >= row.sync_interval

\* WHERE active = true AND (last_sync IS NULL
\*        OR NOW() - last_sync > (sync_interval || ' minutes')::interval)
Due(row, t) ==
    /\ row.active
    /\ \/ row.last_sync = NULL
       \/ t - row.last_sync[1] > row.sync_interval

\* The rows a SELECT without ORDER BY returns: in any order.
Perms(S) ==
    { s \in [1..Cardinality(S) -> S] : \A j, k \in 1..Cardinality(S) : s[j] = s[k] => j = k }

\* INSERT INTO sync_history (config_id, status, message, urls_processed,
\* urls_failed).  The message of a completed pass is built from three
\* counts, the message of a failed one is str(e); `pass` is the cycle whose
\* task inserts the record.
HistoryRecord(p, status, text, processed, changed, failed) ==
    [pass |-> p[1], config_id |-> p[2], status |-> status,
     message |-> [text |-> text, processed |-> processed,
                  changed |-> changed, failed |-> failed],
     urls_processed |-> processed, urls_failed |-> failed]

\* The except clause of _process_config: a second connection inserts the
\* 'error' record, whose message is str(e), and commits.
ErrorRecord(p, msg) == HistoryRecord(p, "error", msg, 0, 0, 0)

RECURSIVE SumRows(_)
SumRows(ids) ==
    IF ids = {} THEN 0
    ELSE LET id == CHOOSE x \in ids : TRUE
         IN  Cardinality(DOMAIN tracked[id]) + SumRows(ids \ {id})

\* SELECT count(*) FROM tracked_urls
TotalRows == SumRows(Configs)

-----------------------------------------------------------------------------
(* The tasks.                                                              *)

\* A _process_config task at pc with no locals: one that gather has created
\* and that has not run yet ("created"), or one that is over.
Task(pc) ==
    [pc |-> pc, started |-> NULL, urls |-> <<>>, snapshot |-> <<>>,
     i |-> 0, resp |-> <<>>]

PassIds == DOMAIN passes

Finished(p) == passes[p].pc \in {"completed", "empty", "failed", "raised"}

\* run_sync_cycle is inside the gather that made task p.
Gathered(p) == sched.pc = "gather" /\ p[1] = sched.cycle

\* The task of pass p is over, in state pc.  The model keeps it while its
\* gather waits for it and forgets it otherwise.
EndPass(p, pc) ==
    IF Gathered(p)
        THEN [passes EXCEPT ![p] = Task(pc)]
        ELSE [q \in PassIds \ {p} |-> passes[q]]

\* The positions of urls whose process_url task is between its creation by
\* gather and its return.
InFlight(p) ==
    IF passes[p].pc = "fetching"
        THEN { k \in ChunkPositions(Len(passes[p].urls), passes[p].i, batch_size) :
                   passes[p].resp[k] = Pending }
        ELSE {}

-----------------------------------------------------------------------------
(* The state after construction: SyncManager() in main.py and the tables   *)
(* as the service finds them, no URL tracked yet.  The configs are         *)
(* numbered with the active ones first and by interval.                    *)

ConfigRows == [active : BOOLEAN, sync_interval : Intervals, last_sync : {NULL}]

InitConfigs ==
    { f \in [Configs -> ConfigRows] :
        \A c, d \in Configs :
            c < d => /\ f[d].active => f[c].active
                     /\ f[c].sync_interval <= f[d].sync_interval }

InitStore ==
    /\ now = 0
    /\ tracked = [c \in Configs |-> <<>>]
    /\ history = [c \in Configs |-> <<>>]
    /\ sink = [c \in Configs |-> <<>>]
    /\ progress = <<>>
    /\ sched = [pc |-> "sleep", wake |-> 0, cycle |-> 0, queue |-> <<>>,
                log |-> "Starting sync service"]
    /\ passes = <<>>

Init ==
    /\ InitStore
    /\ request = NoRequest
    /\ configs \in InitConfigs
    /\ batch_size \in 1..MaxBatchSize
    /\ max_concurrent \in 1..MaxMaxConcurrent

\* INSERT INTO tracked_urls (config_id, url) replacing the row of the pair
\* when there is one.
InsertOrReplace(rows, url) ==
    [u \in (DOMAIN rows) \cup {url} |-> IF u = url THEN NewTrackedRow ELSE rows[u]]

\* INSERT INTO tracked_urls (config_id, url) VALUES (%s, %s)
\* ON CONFLICT (config_id, url) DO NOTHING, on the rows of one config.
InsertTracked(rows, url) ==
    IF url \in DOMAIN rows
        THEN rows
        ELSE [u \in (DOMAIN rows) \cup {url} |->
                 IF u \in DOMAIN rows THEN rows[u] ELSE NewTrackedRow]

\* for url in urls: cur.execute(INSERT ...)
RECURSIVE InsertAll(_, _)
InsertAll(rows, urls) ==
    IF urls = <<>> THEN rows
    ELSE InsertAll(InsertTracked(rows, Head(urls)), Tail(urls))

\* SyncManager.add_urls_to_config(config_id, urls): one INSERT for each url,
\* then one commit.
add_urls_to_config(id, urls) ==
    /\ tracked' = [tracked EXCEPT ![id] = InsertAll(@, urls)]
    /\ UNCHANGED <<request, now, configs, history, sink, batch_size, max_concurrent,
                   progress, sched, passes>>

\* A request POST /api/sync/config/<id>/urls.  The URLs of a config are
\* numbered in the order they are first added, and the table holds at most
\* MaxRows rows.
AddUrls(ids) ==
    \E id \in ids, n \in 1..MaxAddLen :
        \E urls \in [1..n -> Urls] :
            LET all == DOMAIN tracked[id] \cup Range(urls)
            IN  /\ all = 1..Cardinality(all)
                /\ TotalRows + Cardinality(all \ DOMAIN tracked[id]) <= MaxRows
                /\ add_urls_to_config(id, urls)

-----------------------------------------------------------------------------
(* SyncManager.run_sync_cycle and the loop of start_sync_service.          *)

\* cur.fetchall() of the due query at time t.
DueConfigs(t) == { id \in Configs : Due(configs[id], t) }

\* The tasks that are not over.
Unfinished == { p \in PassIds : ~Finished(p) }

\* run_sync_cycle returns, having logged `line` last, and the loop sleeps:
\* finally: await asyncio.sleep(60).
Sleep(line) ==
    [sched EXCEPT !.pc = "sleep", !.wake = now + SleepMinutes, !.log = line]

\* The exception leaves the loop: no except clause on its way.
Uncaught == [sched EXCEPT !.pc = "stopped"]

\* except Exception as e: logger.error("Error in sync cycle: ...") in
\* run_sync_cycle, then the finally clause of the loop.
Caught == Sleep("Error in sync cycle")

GatherDone ==
    /\ sched.pc = "gather"
    /\ \A p \in PassIds :
          p[1] = sched.cycle => passes[p].pc \in {"completed", "empty", "failed"}

GatherRaised ==
    /\ sched.pc = "gather"
    /\ \E p \in PassIds : p[1] = sched.cycle /\ passes[p].pc = "raised"

\* The loop wakes and run_sync_cycle runs up to its await: the query; with
\* no due config it returns, else gather makes one task per due config, and
\* the event loop will start them in the order of the rows.
Tick ==
    /\ sched.pc = "sleep"
    /\ now >= sched.wake
    /\ LET due == DueConfigs(now)
       IN  IF due = {}
               THEN /\ sched' = Sleep("No configurations need syncing")
                    /\ passes' = passes
               ELSE /\ sched.cycle < MaxCycles
                    /\ \E order \in Perms(due) :
                          sched' = [sched EXCEPT !.pc = "gather", !.cycle = @ + 1,
                                                 !.queue = order,
                                                 !.log = "Found configs to sync"]
                    /\ passes' = [p \in PassIds \cup ({sched.cycle + 1} \X due) |->
                                     IF p \in PassIds THEN passes[p] ELSE Task("created")]
    /\ UNCHANGED <<request, now, configs, tracked, history, sink, batch_size,
                   max_concurrent, progress>>

\* The connection or the query of run_sync_cycle raises: the except clause
\* logs, the cycle returns, the loop sleeps.
TickFail ==
    /\ sched.pc = "sleep"
    /\ now >= sched.wake
    /\ sched' = Caught
    /\ UNCHANGED <<request, now, configs, tracked, history, sink, batch_size,
                   max_concurrent, progress, passes>>

\* await asyncio.gather(...) returns once every task of the cycle returned.
CycleReturn ==
    /\ GatherDone
    /\ sched' = Sleep(sched.log)
    /\ passes' = [p \in Unfinished |-> passes[p]]
    /\ UNCHANGED <<request, now, configs, tracked, history, sink, batch_size,
                   max_concurrent, progress>>

\* gather hands the first exception of a task to run_sync_cycle at once and
\* leaves the other tasks running; the except clause logs and the cycle
\* returns.
CycleRaise ==
    /\ GatherRaised
    /\ sched' = Caught
    /\ passes' = [p \in Unfinished |-> passes[p]]
    /\ UNCHANGED <<request, now, configs, tracked, history, sink, batch_size,
                   max_concurrent, progress>>

-----------------------------------------------------------------------------
(* SyncManager._process_config, one task per due config.                   *)

\* for config in configs: await self._process_config(config): a task starts
\* once the tasks of the cycle started before it are over.
StartsInTurn(p) ==
    /\ passes[p].pc = "created"
    /\ sched.queue # <<>>
    /\ p = <<sched.cycle, Head(sched.queue)>>
    /\ \A q \in PassIds : q[1] = p[1] => passes[q].pc = "created" \/ Finished(q)

\* The event loop runs the first step of the tasks gather created in the
\* order of their creation.
Starts(p) ==
    /\ passes[p].pc = "created"
    /\ sched.queue # <<>>
    /\ p = <<sched.cycle, Head(sched.queue)>>

Started == [sched EXCEPT !.queue = Tail(@)]

\* The except clause writing its record in place of the records of the
\* config: DELETE FROM sync_history WHERE config_id = %s, then the INSERT.
HandlerReplacing(p, recorded, msg) ==
    /\ passes' = EndPass(p, IF recorded THEN "failed" ELSE "raised")
    /\ history' = IF recorded
                      THEN [history EXCEPT ![p[2]] = <<ErrorRecord(p, msg)>>]
                      ELSE history

\* The except clause, entered with an exception whose text is msg:
\* `recorded` tells whether its own INSERT and commit went through; when
\* they raise, the exception leaves the task.
Handler(p, recorded, msg) ==
    /\ passes' = EndPass(p, IF recorded THEN "failed" ELSE "raised")
    /\ history' = IF recorded
                      THEN [history EXCEPT ![p[2]] = Append(@, ErrorRecord(p, msg))]
                      ELSE history

\* The task starts and the connection or the SELECT of the tracked URLs
\* raises.
PassStartFail(p) ==
    /\ Starts(p)
    /\ sched' = Started
    /\ \E recorded \in BOOLEAN : Handler(p, recorded, "store error")
    /\ UNCHANGED <<request, now, configs, tracked, sink, batch_size, max_concurrent,
                   progress>>

\* No URL is tracked for the config and the pass goes on to its end: it
\* inserts a 'completed' record of no URL and sets last_sync.
PassStartEmptyRecorded(p) ==
    /\ Starts(p)
    /\ sched' = Started
    /\ DOMAIN tracked[p[2]] = {}
    /\ passes' = EndPass(p, "empty")
    /\ history' = [history EXCEPT ![p[2]] =
                      Append(@, HistoryRecord(p, "completed", "Processed", 0, 0, 0))]
    /\ configs' = [configs EXCEPT ![p[2]].last_sync = Some(now)]
    /\ UNCHANGED <<request, now, tracked, sink, batch_size, max_concurrent,
                   progress>>

\* No URL is tracked for the config: return.
PassStartEmpty(p) ==
    /\ Starts(p)
    /\ sched' = Started
    /\ DOMAIN tracked[p[2]] = {}
    /\ passes' = EndPass(p, "empty")
    /\ UNCHANGED <<request, now, configs, tracked, history, sink, batch_size,
                   max_concurrent, progress>>

\* The task reads the tracked rows and calls process_urls, which replaces
\* self.progress and calls process_batch on the first chunk, which creates
\* one process_url task per URL of the chunk and awaits them.
PassStart(p) ==
    /\ Starts(p)
    /\ sched' = Started
    /\ LET rows == tracked[p[2]]
       IN  /\ DOMAIN rows # {}
           /\ \E urls \in Perms(DOMAIN rows) :
                 passes' = [passes EXCEPT ![p] =
                     [pc |-> "fetching",
                      started |-> Some(now),
                      urls |-> urls,
                      snapshot |-> [u \in DOMAIN rows |-> rows[u].last_content_hash],
                      i |-> 0,
                      resp |-> [k \in 1..Len(urls) |-> Pending]]]
           /\ progress' = <<BatchProgress(p, Cardinality(DOMAIN rows), batch_size)>>
    /\ UNCHANGED <<request, now, configs, tracked, history, sink, batch_size,
                   max_concurrent>>

\* finally: if self.progress: self.progress.processed_urls += 1
CountProcessed(prog) ==
    IF prog = <<>> THEN prog
    ELSE <<[prog[1] EXCEPT !.processed_urls = @ + 1]>>

\* if self.progress: self.progress.current_batch += 1
CountBatch(prog) ==
    IF prog = <<>> THEN prog
    ELSE <<[prog[1] EXCEPT !.current_batch = @ + 1]>>

\* One process_url task runs from its response (or exception) to its
\* return, through the finally clause.
UrlDone(p, k, r) ==
    /\ k \in InFlight(p)
    /\ passes' = [passes EXCEPT ![p].resp[k] = r]
    /\ progress' = CountProcessed(progress)
    /\ UNCHANGED <<request, now, configs, tracked, history, sink, batch_size,
                   max_concurrent, sched>>

\* The gather of the chunk waiting for a result of every URL of the run,
\* those of the chunks not yet made included.
ChunkDoneWhenAllAnswered(p) ==
    /\ passes[p].pc = "fetching"
    /\ \A k \in 1..Len(passes[p].urls) : passes[p].resp[k] # Pending

ChunkDone(p) == passes[p].pc = "fetching" /\ InFlight(p) = {}

LastChunk(p) == passes[p].i + batch_size >= Len(passes[p].urls)

\* The gather of process_batch returns, the chunk is merged and counted,
\* and process_urls calls process_batch on the next chunk.
NextChunk(p) ==
    /\ ChunkDone(p)
    /\ ~LastChunk(p)
    /\ passes' = [passes EXCEPT ![p].i = @ + batch_size]
    /\ progress' = CountBatch(progress)
    /\ UNCHANGED <<request, now, configs, tracked, history, sink, batch_size,
                   max_concurrent, sched>>

\* if new_hash != old_hash
HashChanged(new_hash, old_hash) == new_hash # old_hash

\* The URLs the loop over results.items() finds changed, in its order:
\* the entries that do not start with "Error:" and whose digest differs
\* from the last_content_hash read at the start of the pass.
ChangedUrls(urls, results, snapshot) ==
    LET IsChanged(u) ==
            /\ ~IsErrorString(results[u])
            /\ HashChanged(_compute_content_hash(results[u]), snapshot[u])
    IN  SelectSeq(DictKeys(urls), IsChanged)

\* sum(1 for content in results.values() if content.startswith("Error:"))
UrlsFailed(results) ==
    Cardinality({ u \in DOMAIN results : IsErrorString(results[u]) })

\* UPDATE tracked_urls SET last_content_hash = %s alone, for every changed
\* URL.
UpdateHashOnly(rows, changed, results, started) ==
    [u \in DOMAIN rows |->
        IF u \in Range(changed)
            THEN [last_content_hash |-> _compute_content_hash(results[u]),
                  last_sync |-> rows[u].last_sync]
            ELSE rows[u]]

\* UPDATE tracked_urls SET last_content_hash = %s, last_sync = NOW()
\* WHERE config_id = %s AND url = %s, for every changed URL; NOW() is the
\* start of the transaction of the pass.
UpdateTracked(rows, changed, results, started) ==
    [u \in DOMAIN rows |->
        IF u \in Range(changed)
            THEN [last_content_hash |-> _compute_content_hash(results[u]),
                  last_sync |-> started]
            ELSE rows[u]]

\* The UPDATEs issued for the changed URLs stay in the table although the
\* pass failed.
NoRollback(rows, changed, results, started) ==
    UpdateTracked(rows, changed, results, started)

\* The exception leaves the `with conn` block of the pass: psycopg2 rolls
\* the transaction back, and the UPDATEs issued for the URLs of `changed`
\* are undone.
Rollback(rows, changed, results, started) == rows

\* What a call of the sink comes to: a page, an error string returned by
\* Formula_GenerateSubPage, or an exception.
SinkOutcomes == {"page", "error", "raise"}

\* One call of Formula_GenerateSubPage(doc_id, page_name, {url: content})
\* and what it came to.
SinkCall(p, url, content, outcome) ==
    [pass |-> p[1], config_id |-> p[2], url |-> url, content |-> content,
     outcome |-> outcome]

\* The sink call leaves the loop over the results with an exception.
SinkAbortsOnRaise(outcome) == outcome = "raise"

\* try: ... Formula_GenerateSubPage(...) except Exception: the pass logs a
\* page, an error string or an exception alike and goes on.
SinkAborts(outcome) == FALSE

\* The gather of the last chunk returns: the chunk is merged and counted,
\* process_urls returns, and _process_config runs to its end without
\* another await.  It walks the results; for each changed URL it updates
\* the row and calls the sink; then it inserts the 'completed' record, sets
\* the config's last_sync and commits.  A statement of the store may raise:
\* `calls` is the number of sink calls made before that (all of them when
\* the pass commits), the transaction is rolled back and the except clause
\* runs.
PassFinish(p, sinks) ==
    /\ ChunkDone(p)
    /\ LastChunk(p)
    /\ progress' = CountBatch(progress)
    /\ LET ps == passes[p]
           results == MergedResults(ps.urls, ps.resp)
           urls_processed == Cardinality(DOMAIN results)
           urls_failed == UrlsFailed(results)
           changed == ChangedUrls(ps.urls, results, ps.snapshot)
       IN  \E calls \in 0..Len(changed) : \E outcomes \in [1..calls -> sinks] :
              LET aborted == calls >= 1 /\ SinkAborts(outcomes[calls])
              IN  /\ \A k \in 1..(calls - 1) : ~SinkAborts(outcomes[k])
                  /\ sink' = [sink EXCEPT ![p[2]] = @ \o
                         [k \in 1..calls |->
                             SinkCall(p, changed[k], results[changed[k]], outcomes[k])]]
                  /\ \/ /\ calls = Len(changed)
                        /\ ~aborted
                        /\ tracked' = [tracked EXCEPT ![p[2]] =
                                          UpdateTracked(@, changed, results, ps.started)]
                        /\ history' = [history EXCEPT ![p[2]] = Append(@,
                               HistoryRecord(p, "completed", "Processed",
                                             urls_processed, Len(changed), urls_failed))]
                        /\ configs' = [configs EXCEPT ![p[2]].last_sync = ps.started]
                        /\ passes' = EndPass(p, "completed")
                     \/ /\ \E recorded \in BOOLEAN :
                              Handler(p, recorded,
                                      IF aborted THEN "sink error" ELSE "store error")
                        /\ tracked' = [tracked EXCEPT ![p[2]] =
                                          Rollback(@, SubSeq(changed, 1, calls),
                                                   results, ps.started)]
                        /\ UNCHANGED configs
    /\ UNCHANGED <<request, now, batch_size, max_concurrent, sched>>

-----------------------------------------------------------------------------
(* Time.  The code between two awaits takes no time: the clock moves only  *)
(* while every task waits, for the network or in asyncio.sleep(60).        *)

Runnable ==
    \/ sched.pc = "sleep" /\ now >= sched.wake
    \/ GatherDone
    \/ GatherRaised
    \/ \E p \in PassIds : passes[p].pc = "created" \/ ChunkDone(p)

Advance ==
    /\ now < MaxTime
    /\ ~Runnable
    /\ now' = now + 1
    /\ UNCHANGED <<request, configs, tracked, history, sink, batch_size, max_concurrent,
                   progress, sched, passes>>

-----------------------------------------------------------------------------
(* The scheduler with the pages of the web answering from `web`, requests  *)
(* adding URLs to the configs `ids`, and the sink answering from `sinks`.  *)

Step(web, ids, sinks) ==
    \/ Advance
    \/ AddUrls(ids)
    \/ Tick
    \/ TickFail
    \/ CycleReturn
    \/ CycleRaise
    \/ \E p \in PassIds : PassStartFail(p)
    \/ \E p \in PassIds : PassStartEmpty(p)
    \/ \E p \in PassIds : PassStart(p)
    \/ \E p \in PassIds : \E k \in 1..Len(passes[p].urls) : \E r \in web :
          UrlDone(p, k, r)
    \/ \E p \in PassIds : NextChunk(p)
    \/ \E p \in PassIds : PassFinish(p, sinks)

\* What a page answers to a call of process_url outside the service: any of
\* Responses, a longer text, a text that begins like a rejection, or a
\* refusal with a body.
UrlResponses ==
    Responses \cup { Response("200", <<"a", "b">>),
                     Response("200", <<"Content filtered:", "a">>),
                     Response("403", <<"a">>) }

\* content_selector: None, a CSS selector, or a text that is no selector.
Selectors == { <<>>, <<"p">>, <<"p[">> }

\* soup.select(selector) parses the selector: it raises on <<"p[">>.
ValidSelector(selector) == selector # <<"p[">>

\* The page as process_url sees it after the selectors were applied to the
\* body of a 200 response: an invalid selector makes soup.select raise
\* inside the try block.
SelectBody(resp, content_selector) ==
    IF /\ resp.kind = "response"
       /\ resp.status = "200"
       /\ content_selector # <<>>
       /\ ~ValidSelector(content_selector)
        THEN Raise("SelectorSyntaxError")
        ELSE resp

\* search_query: None, or a text to look for.
Queries == { <<>>, <<"b">>, <<"B">> }

\* The entries a content_filters mapping is made of.
FilterEntries ==
    { Filter("min_length", <<"2">>, 2, TRUE),
      Filter("min_length", <<"abc">>, 0, FALSE),
      Filter("max_length", <<"1">>, 1, TRUE),
      Filter("contains", <<"b">>, 0, TRUE),
      Filter("excludes", <<"a">>, 0, TRUE) }

\* The content_filters mappings of at most MaxFilters entries: a dict has
\* one entry per key, in the order its keys were inserted.
FilterMappings ==
    UNION { { m \in [1..n -> FilterEntries] :
                \A j, k \in 1..n : m[j].type = m[k].type => j = k } :
            n \in 0..MaxFilters }

\* process_urls_sync([url], search_query=..., content_filters=...) about to
\* run, for every response of the page and every value of the arguments.
InitUrl ==
    /\ InitStore
    /\ configs = [c \in Configs |->
                     [active |-> FALSE, sync_interval |-> 1, last_sync |-> NULL]]
    /\ batch_size = 1
    /\ max_concurrent = 1
    /\ request \in [pc : {"call"}, resp : UrlResponses,
                     content_selector : Selectors, search_query : Queries,
                     content_filters : FilterMappings, fetched : {FALSE},
                     result : {<<>>}]

\* The call returns {url: result}: session.get(url) is issued first, the
\* selectors are used on the body it returns.
ProcessUrl ==
    /\ request.pc = "call"
    /\ request' = [request EXCEPT
                      !.pc = "done",
                      !.fetched = TRUE,
                      !.result = process_url(
                                     SelectBody(request.resp, request.content_selector),
                                     request.search_query, request.content_filters)]
    /\ UNCHANGED <<now, configs, tracked, history, sink, batch_size,
                   max_concurrent, progress, sched, passes>>

NextUrl == ProcessUrl

SpecUrl == InitUrl /\ [][NextUrl]_vars

\* Two configs and their concurrent passes; a page answers with a text or
\* with a server error, and the sink makes its page.
SchedResponses == { Response("200", <<"a">>), Response("500", <<>>) }

Next == Step(SchedResponses, Configs, {"page"})

Spec == Init /\ [][Next]_vars

\* One config and its passes, one after the other; a page answers with any
\* of Responses.
InitRun ==
    /\ InitStore
    /\ request = NoRequest
    /\ configs \in { f \in InitConfigs : \A c \in Configs : f[c].active <=> c = 1 }
    /\ batch_size \in 1..MaxBatchSize
    /\ max_concurrent \in 1..MaxMaxConcurrent

NextRun == Step(Responses, {1}, {"page"})

SpecRun == InitRun /\ [][NextRun]_vars

\* One config and its passes, with the sink answering with any of
\* SinkOutcomes.
NextSink == Step(SchedResponses, {1}, SinkOutcomes)

SpecSink == InitRun /\ [][NextSink]_vars

\* The scheduler of active configs, the first of them with URLs, every page
\* answering with a text, one URL fetched at a time, under the scheduling of the event loop: a task
\* that can run does run, every fetch returns or raises (aiohttp's total
\* timeout), every call of the store returns or raises, and time passes.
LiveResponses == { Response("200", <<"a">>) }

InitLive ==
    /\ Init
    /\ \A c \in Configs : configs[c].active
    /\ batch_size = 1

NextLive == Step(LiveResponses, {1}, {"page"})

Fairness ==
    /\ WF_vars(Advance)
    /\ WF_vars(Tick \/ TickFail)
    /\ WF_vars(CycleReturn \/ CycleRaise)
    /\ WF_vars(\E p \in PassIds :
                  \/ PassStartFail(p) \/ PassStartEmpty(p) \/ PassStart(p)
                  \/ NextChunk(p) \/ PassFinish(p, {"page"}))
    /\ WF_vars(\E p \in PassIds : \E k \in 1..Len(passes[p].urls) :
                  \E r \in LiveResponses : UrlDone(p, k, r))

SpecLive == InitLive /\ [][NextLive]_vars /\ Fairness

-----------------------------------------------------------------------------
(* The claims of the specification, each stated on the model.              *)

\* The passes of config c that are in flight.
InFlightPasses(c) == { p \in PassIds : p[2] = c /\ ~Finished(p) }

\* C1: at any moment at most one pass is in flight for a given config: a
\* new pass for a config begins only after the previous pass for that
\* config has ended.
C1_OnePassPerConfig ==
    \A c \in Configs : Cardinality(InFlightPasses(c)) <= 1

\* C2: within one run of process_urls, at no moment are more than
\* max_concurrent URLs in flight.
C2_AtMostMaxConcurrentInFlight ==
    \A p \in PassIds : Cardinality(InFlight(p)) <= max_concurrent

\* The positions of pass p whose process_url task has returned.
DonePositions(p) ==
    { k \in 1..Len(passes[p].urls) : passes[p].resp[k] # Pending }

\* process_urls of pass p returns in this step.
Returns(p) ==
    /\ ChunkDone(p)
    /\ LastChunk(p)
    /\ p \in DOMAIN passes' => passes'[p].pc # "fetching"

\* C3: when a run of process_urls returns, the processed_urls of its
\* BatchProgress equals the number of URLs it was given and its result
\* mapping holds exactly one entry per distinct URL given.
C3_AllUrlsCountedAtReturn ==
    [][\A p \in PassIds :
          Returns(p) =>
              /\ progress # <<>>
              /\ progress[1].processed_urls = Len(passes[p].urls)
              /\ DOMAIN MergedResults(passes[p].urls, passes[p].resp)
                     = Range(passes[p].urls)]_vars

\* A process_url task of pass p returns in this step.
UrlFinishes(p) ==
    /\ p \in DOMAIN passes'
    /\ \E k \in InFlight(p) : passes'[p].resp[k] # Pending

\* C4: each run owns its BatchProgress: while several runs are in flight,
\* a URL finishing in one run never changes the counters of the
\* BatchProgress of another run.
C4_ProgressOfOneRun ==
    [][\A p \in PassIds :
          (UrlFinishes(p) /\ progress # <<>> /\ progress[1].run # p)
              => progress' = progress]_vars

\* The result of position k of pass p is an error entry.
IsErrorEntry(p, k) ==
    IsErrorString(process_url(passes[p].resp[k], <<>>, <<>>))

\* C5: processed_urls grows by one for every URL that finishes, and
\* failed_urls by one for every URL that finishes with an error: while a
\* run is under way failed_urls is the number of its Error results so far.
C5_CountersOncePerUrl ==
    \A p \in PassIds :
        (passes[p].pc = "fetching" /\ progress # <<>> /\ progress[1].run = p)
            => /\ progress[1].processed_urls = Cardinality(DonePositions(p))
               /\ progress[1].failed_urls
                      = Cardinality({ k \in DonePositions(p) : IsErrorEntry(p, k) })

\* A per-URL failure: the fetch raised, or answered with a status other
\* than 200.
Failure(r) == r.kind = "raise" \/ (r.kind = "response" /\ r.status # "200")

\* A filters mapping whose length bound is no number: int() raises inside
\* process_url once a text was extracted.
RaisingFilters ==
    { <<Filter("min_length", <<"abc">>, 0, FALSE)>>,
      <<Filter("contains", <<"a">>, 0, TRUE), Filter("max_length", <<"abc">>, 0, FALSE)>> }

\* C6: a per-URL failure (non-200 status, exception raised while fetching,
\* extracting or filtering) becomes an Error entry of that URL and does not
\* end the run: every URL of the chunks before the current one has its
\* result, and when the last chunk is over every URL has one.
C6_FailureIsAnErrorEntry ==
    /\ \A p \in PassIds :
          passes[p].pc = "fetching" =>
              /\ \A k \in DonePositions(p) :
                    Failure(passes[p].resp[k]) => IsErrorEntry(p, k)
              /\ 1..passes[p].i \subseteq DonePositions(p)
              /\ (ChunkDone(p) /\ LastChunk(p))
                    => DonePositions(p) = 1..Len(passes[p].urls)
    /\ \A r \in Responses, f \in RaisingFilters :
          (r.kind = "response" /\ r.status = "200" /\ r.text # <<>>
               /\ Contains(<<"a">>, LowerSeq(r.text)))
              => IsErrorString(process_url(r, <<>>, f))

\* C6 witness: a run of two chunks whose first URL raised and whose second
\* URL, in the later chunk, has its text.
C6_Witness ==
    \E p \in PassIds :
        /\ passes[p].pc = "fetching"
        /\ batch_size = 1
        /\ Len(passes[p].urls) = 2
        /\ passes[p].resp[1] = Raise("timeout")
        /\ passes[p].resp[2] = Response("200", <<"a">>)

\* The fetch answered 200 and a text was extracted from the body.
Extracted(r) == r.kind = "response" /\ r.status = "200" /\ r.text # <<>>

\* Pass p commits in this step: its 'completed' record is appended.
Completes(p) ==
    /\ ChunkDone(p)
    /\ LastChunk(p)
    /\ Len(history'[p[2]]) = Len(history[p[2]]) + 1
    /\ history'[p[2]][Len(history'[p[2]])].status = "completed"
    /\ history'[p[2]][Len(history'[p[2]])].pass = p[1]

\* The URLs the sink is called for in this step, for config c.
NewSinkUrls(c) ==
    { sink'[c][j].url : j \in (Len(sink[c]) + 1)..Len(sink'[c]) }

\* C7: a pass that completes and in which a tracked URL with no stored hash
\* is successfully extracted counts it as changed and calls the sink for
\* it; a pass that extracts the text whose hash is stored counts it as
\* unchanged and does not call the sink for it.
C7_ChangeDetectionAcrossPasses ==
    [][\A p \in PassIds :
          Completes(p) =>
              LET ps == passes[p]
                  rec == history'[p[2]][Len(history'[p[2]])]
                  IsNew(k) ==
                      /\ Extracted(ps.resp[k])
                      /\ ps.snapshot[ps.urls[k]] # _compute_content_hash(ps.resp[k].text)
              IN  /\ \A k \in 1..Len(ps.urls) :
                        Extracted(ps.resp[k]) =>
                            /\ ps.snapshot[ps.urls[k]] = NULL
                                   => ps.urls[k] \in NewSinkUrls(p[2])
                            /\ ~IsNew(k) => ps.urls[k] \notin NewSinkUrls(p[2])
                  /\ rec.message.changed
                         >= Cardinality({ k \in 1..Len(ps.urls) :
                                Extracted(ps.resp[k]) /\ ps.snapshot[ps.urls[k]] = NULL })
                  /\ rec.message.changed
                         <= Cardinality({ k \in 1..Len(ps.urls) :
                                ~Extracted(ps.resp[k]) \/ IsNew(k) })]_vars

\* The loop of start_sync_service runs a tick in this step.
IsTick ==
    /\ sched.pc = "sleep"
    /\ sched'.pc = "gather" \/ sched'.wake # sched.wake

\* The configs a pass is created for in this step.
Selected ==
    { c \in Configs : <<sched'.cycle, c>> \in (DOMAIN passes') \ PassIds }

\* C8: a tick whose query answers selects a config if and only if it is
\* active and its last_sync is null or more than sync_interval minutes
\* old; a tick whose query fails selects none.  So an inactive config is
\* never selected, nor one whose last_sync is exactly sync_interval old.
C8_SelectsExactlyTheDue ==
    [][IsTick =>
          LET IsDue(c) ==
                  /\ configs[c].active = TRUE
                  /\ \/ configs[c].last_sync = NULL
                     \/ now - configs[c].last_sync[1] > configs[c].sync_interval
          IN  /\ \A c \in Selected : IsDue(c)
              /\ sched'.log # "Error in sync cycle"
                    => \A c \in Configs : IsDue(c) => c \in Selected
              /\ \A p \in PassIds : p \in DOMAIN passes' /\ passes'[p] = passes[p]
              /\ \A c \in Selected : passes'[<<sched'.cycle, c>>] = Task("created")]_vars

\* C8 witness: a tick has just selected one config and left out another,
\* active, whose last_sync is exactly sync_interval minutes old.
C8_Witness ==
    /\ sched.pc = "gather"
    /\ \A c \in Range(sched.queue) : <<sched.cycle, c>> \in PassIds
    /\ \A p \in PassIds : p[1] = sched.cycle => p[2] \in Range(sched.queue)
    /\ \E c, d \in Configs :
          /\ <<sched.cycle, c>> \in PassIds
          /\ <<sched.cycle, d>> \notin PassIds
          /\ configs[d].active
          /\ configs[d].last_sync # NULL
          /\ now - configs[d].last_sync[1] = configs[d].sync_interval

\* Pass p ends in this step through the except clause of _process_config.
Fails(p) ==
    /\ ~Finished(p)
    /\ p \in DOMAIN passes'
    /\ passes'[p].pc \in {"failed", "raised"}

\* C9: when a pass fails with an exception, exactly one record with status
\* 'error' and urls_processed = urls_failed = 0 is appended for its config,
\* the config's last_sync keeps its value, and the config is due at the
\* next tick.
C9_FailedPassRecorded ==
    [][\A p \in PassIds :
          Fails(p) =>
              LET c == p[2]
                  n == Len(history[c])
              IN  /\ Len(history'[c]) = n + 1
                  /\ SubSeq(history'[c], 1, n) = history[c]
                  /\ history'[c][n + 1].status = "error"
                  /\ history'[c][n + 1].urls_processed = 0
                  /\ history'[c][n + 1].urls_failed = 0
                  /\ configs'[c].last_sync = configs[c].last_sync
                  /\ Due(configs'[c], now + SleepMinutes)]_vars

\* The result of a fetch is an Error: it raised, answered with a status
\* other than 200, or nothing was extracted from the body.
ErrorOutcome(r) == ~Extracted(r)

\* C10: a pass that completes appends one 'completed' record whose
\* urls_processed is the number of URLs tracked for the config at the start
\* of the pass and whose urls_failed is the number of those with an Error
\* result, and sets the config's last_sync to the time of the pass in the
\* same commit.
C10_CompletedRecordCounts ==
    [][\A p \in PassIds :
          Completes(p) =>
              LET ps == passes[p]
                  rec == history'[p[2]][Len(history'[p[2]])]
              IN  /\ rec.urls_processed = Cardinality(DOMAIN ps.snapshot)
                  /\ rec.urls_failed
                         = Cardinality({ k \in 1..Len(ps.urls) : ErrorOutcome(ps.resp[k]) })
                  /\ configs'[p[2]].last_sync = ps.started]_vars

\* The task of pass p ends in this step.
Ends(p) ==
    /\ ~Finished(p)
    /\ p \in DOMAIN passes' => Finished(p)'

\* C11: every pass the scheduler starts appends exactly one record for its
\* config, with status completed or error, whatever happens in the pass:
\* when the task of the pass ends, the history of the config has grown by
\* one record of that pass.
C11_OneRecordPerPass ==
    [][\A p \in PassIds :
          Ends(p) =>
              LET c == p[2]
                  n == Len(history[c])
              IN  /\ Len(history'[c]) = n + 1
                  /\ SubSeq(history'[c], 1, n) = history[c]
                  /\ history'[c][n + 1].pass = p[1]
                  /\ history'[c][n + 1].status \in {"completed", "error"}]_vars

\* The calls of the sink made in this step, for config c.
NewSinkCalls(c) == SubSeq(sink'[c], Len(sink[c]) + 1, Len(sink'[c]))

\* C12: a failure of the sink for a changed URL (an exception, or an error
\* string returned) does not fail the pass.  When the loop over the results
\* of a pass met a failing sink call, either the pass completes, with one
\* sink call for each URL it counts as changed, a 'completed' record and
\* the config's last_sync set to the pass, or the pass failed on the store
\* and the error it records is the store's.
C12_SinkFailureDoesNotFailPass ==
    [][\A p \in PassIds :
          LET c == p[2]
              calls == NewSinkCalls(c)
              rec == history'[c][Len(history'[c])]
          IN  (Returns(p) /\ \E k \in 1..Len(calls) : calls[k].outcome # "page")
                  => \/ /\ Completes(p)
                        /\ Len(calls) = rec.message.changed
                        /\ \A j, k \in 1..Len(calls) : calls[j].url = calls[k].url => j = k
                        /\ configs'[c].last_sync = passes[p].started
                     \/ /\ Fails(p)
                        /\ Len(history'[c]) > Len(history[c])
                              => /\ rec.status = "error"
                                 /\ rec.message.text = "store error"]_vars

\* C12 witness: a pass has completed whose first sink call raised and whose
\* second sink call, for another URL, was made all the same.
C12_Witness ==
    \E c \in Configs :
        /\ Len(sink[c]) >= 2
        /\ sink[c][1].outcome = "raise"
        /\ sink[c][2].pass = sink[c][1].pass
        /\ sink[c][2].url # sink[c][1].url
        /\ history[c] # <<>>
        /\ history[c][Len(history[c])].status = "completed"
        /\ history[c][Len(history[c])].pass = sink[c][1].pass
        /\ configs[c].last_sync # NULL

\* C13: the scheduling loop never stops.  Whatever was raised inside a
\* tick, by the due query, by a pass or by the except clause of a pass, the
\* cycle ends and the loop sleeps; and a sleeping loop runs its next tick,
\* at every time up to the horizon MaxTime.
C13_LoopNeverStops ==
    /\ [](sched.pc = "gather" => <>(sched.pc = "sleep"))
    /\ \A w \in 0..MaxTime :
          []((sched.pc = "sleep" /\ sched.wake = w)
                => <>(sched.pc = "gather" \/ (sched.pc = "sleep" /\ sched.wake > w)))

\* C13 witness: the loop is in its second cycle after a first cycle in
\* which a pass raised out of its own except clause and left a sibling pass
\* running.
C13_Witness ==
    /\ sched.pc = "gather"
    /\ sched.cycle = 2
    /\ \E p \in PassIds : p[1] = 1 /\ passes[p].pc = "fetching"

\* C14: add_urls_to_config is idempotent.  A step in which no pass commits
\* adds rows and does nothing else to the table: every (config, url) pair
\* that had a row keeps that one row with its last_content_hash and
\* last_sync, and a pair that gets a row gets the row of a URL never
\* fetched.  The table holds one row for each pair: it is keyed by the pair
\* the INSERT names as its conflict target.
C14_AddUrlsIdempotent ==
    [][(\A p \in PassIds : ~Completes(p)) =>
          \A c \in Configs :
              /\ \A u \in DOMAIN tracked[c] :
                    /\ u \in DOMAIN tracked'[c]
                    /\ tracked'[c][u] = tracked[c][u]
              /\ \A u \in (DOMAIN tracked'[c]) \ DOMAIN tracked[c] :
                    /\ tracked'[c][u].last_content_hash = NULL
                    /\ tracked'[c][u].last_sync = NULL]_vars

\* C14 witness: URLs were added to a config after a pass stored the hash
\* of its first URL: the row of the first URL still carries that hash and
\* the pass that stored it saw one URL only.
C14_Witness ==
    \E c \in Configs :
        /\ DOMAIN tracked[c] = {1, 2}
        /\ tracked[c][1].last_content_hash # NULL
        /\ tracked[c][1].last_sync # NULL
        /\ tracked[c][2].last_content_hash = NULL
        /\ Len(history[c]) = 1
        /\ history[c][1].status = "completed"
        /\ history[c][1].urls_processed = 1
        /\ InFlightPasses(c) = {}

\* C15: the last_content_hash and the last_sync of a tracked URL are
\* written together.  In every state of the table a row has both or
\* neither, and a step that changes a row gives it the digest of the
\* result one pass got for the URL together with the time of that pass.
C15_HashAndLastSyncTogether ==
    [][\A c \in Configs : \A u \in DOMAIN tracked'[c] :
          LET row == tracked'[c][u]
          IN  /\ row.last_content_hash = NULL <=> row.last_sync = NULL
              /\ (u \in DOMAIN tracked[c] /\ row # tracked[c][u])
                    => \E p \in PassIds :
                          /\ p[2] = c
                          /\ Completes(p)
                          /\ row.last_sync = passes[p].started
                          /\ \E k \in 1..Len(passes[p].urls) :
                                /\ passes[p].urls[k] = u
                                /\ row.last_content_hash = _compute_content_hash(
                                       process_url(passes[p].resp[k], <<>>, <<>>))]_vars

\* C15 witness: a row written by a pass later than the first one, with the
\* digest of the text "b" and the time of that pass.
C15_Witness ==
    \E c \in Configs : \E u \in DOMAIN tracked[c] :
        /\ tracked[c][u].last_content_hash = _compute_content_hash(<<"b">>)
        /\ tracked[c][u].last_sync # NULL
        /\ tracked[c][u].last_sync[1] >= 1

\* The order the filters are to be evaluated in.
FixedOrder == <<"min_length", "max_length", "contains", "excludes">>

RECURSIVE InFixedOrder(_, _)
\* The entries of a content_filters mapping, from the k-th kind of
\* FixedOrder on, in the order of FixedOrder.
InFixedOrder(content_filters, k) ==
    IF k > Len(FixedOrder) THEN <<>>
    ELSE SelectSeq(content_filters, LAMBDA f : f.type = FixedOrder[k])
             \o InFixedOrder(content_filters, k + 1)

\* C16: the content filters are evaluated in the order min_length,
\* max_length, contains, excludes, whatever the order of the kinds in the
\* mapping: the result of a call is the result of the same call with the
\* entries of its mapping put in that order.
C16_FiltersInFixedOrder ==
    request.pc = "done" =>
        request.result = process_url(
                             SelectBody(request.resp, request.content_selector),
                             request.search_query,
                             InFixedOrder(request.content_filters, 1))

\* The page answered 200 and nothing was extracted from it.
NoContent(r) == r.kind = "response" /\ r.status = "200" /\ r.text = <<>>

\* C17: a URL whose fetch returns 200 and whose extraction yields no
\* content has an Error result: a pass that completes counts it in
\* urls_failed, stores no fingerprint for it and does not call the sink
\* for it.
C17_NoContentIsAnError ==
    [][\A p \in PassIds :
          Completes(p) =>
              LET ps == passes[p]
                  c == p[2]
                  rec == history'[c][Len(history'[c])]
                  empty == { k \in 1..Len(ps.urls) : NoContent(ps.resp[k]) }
              IN  /\ \A k \in empty :
                        /\ IsErrorEntry(p, k)
                        /\ ps.urls[k] \notin NewSinkUrls(c)
                        /\ ps.urls[k] \in DOMAIN tracked'[c]
                              => tracked'[c][ps.urls[k]].last_content_hash
                                     # _compute_content_hash(NoContentFound)
                  /\ rec.urls_failed >= Cardinality(empty)]_vars

\* The return statement a call of process_url leaves by: the text at the
\* end of the 200 branch, one of the 'Content filtered:' returns, or one of
\* the two 'Error:' returns.
Outcome(resp, search_query, content_filters) ==
    IF resp.kind = "raise" \/ resp.status # "200" THEN "Error"
    ELSE LET text_content == IF resp.text = <<>> THEN NoContentFound ELSE resp.text
             found == text_content # NoContentFound
             filtered == IF content_filters # <<>> /\ found
                             THEN ApplyFilters(text_content, content_filters)
                             ELSE <<>>
         IN  IF search_query # <<>> /\ found
                   /\ ~Contains(LowerSeq(search_query), LowerSeq(text_content))
                 THEN "Filtered"
             ELSE IF filtered = <<>> THEN "Success"
             ELSE IF filtered[1] = "raise" THEN "Error"
             ELSE "Filtered"

\* The sync pass takes a result for a success: not content.startswith("Error:").
SyncPassSuccess(content) == ~IsErrorString(content)

\* The download front end takes a result for a success:
\* content and not content.startswith(('Error:', 'Content filtered:')).
FrontEndSuccess(content) ==
    /\ content # <<>>
    /\ ~StartsWith(content, <<"Error:">>)
    /\ ~StartsWith(content, <<"Content filtered:">>)

\* C18: the result of a URL is exactly one of Success, Filtered and Error,
\* and its consumers classify it as what it is: the download front end
\* takes it for a success exactly when it is one, and so does the sync
\* pass, which calls process_url without query and without filters.
C18_OneOutcomePerResult ==
    request.pc = "done" =>
        LET o == Outcome(SelectBody(request.resp, request.content_selector),
                         request.search_query, request.content_filters)
        IN  /\ FrontEndSuccess(request.result) <=> o = "Success"
            /\ (request.search_query = <<>> /\ request.content_filters = <<>>)
                  => /\ SyncPassSuccess(request.result) <=> o = "Success"
                     /\ SyncPassSuccess(request.result) <=> FrontEndSuccess(request.result)

\* The times of the passes of config c that completed and found a URL
\* changed: each wrote its time into the row of that URL.
CompletedPassTimes(c) ==
    { tracked[c][u].last_sync[1] :
          u \in { v \in DOMAIN tracked[c] : tracked[c][v].last_sync # NULL } }

\* The loop of the service is awake: run_sync_cycle runs its query now.
AtTick == sched.pc = "sleep" /\ now >= sched.wake

\* C19: after a pass of a config has completed, no tick that occurs before
\* more than sync_interval minutes have elapsed since that pass selects the
\* config: when the loop wakes within the interval of a completed pass, the
\* config is not among those its query returns.
C19_NotDueWithinInterval ==
    AtTick =>
        \A c \in Configs : \A s \in CompletedPassTimes(c) :
            now - s <= configs[c].sync_interval => c \notin DueConfigs(now)

\* Pass q awaits the fetch of a URL.
Suspended(q) == passes[q].pc = "fetching" /\ InFlight(q) # {}

\* Pass q ended in its except clause.
Failed(q) == passes[q].pc \in {"failed", "raised"}

\* C20: the passes of the configs due in one tick run concurrently and
\* independently.  Whenever a pass of the tick is suspended on a fetch or
\* has failed, every other pass of the same tick can take its next step:
\* start when the event loop reaches it, receive the response of a URL it
\* fetches, go on to its next chunk, and at the end of its last chunk
\* commit its own 'completed' record and last_sync, leaving the records and
\* the last_sync of the other configs as they are.
C20_PassesRunIndependently ==
    \A p \in PassIds :
        (\E q \in PassIds \ {p} : q[1] = p[1] /\ (Suspended(q) \/ Failed(q)))
            => /\ (passes[p].pc = "created" /\ sched.queue # <<>>
                        /\ Head(sched.queue) = p[2] /\ sched.cycle = p[1])
                     => IF tracked[p[2]] = <<>>
                            THEN ENABLED PassStartEmpty(p)
                            ELSE ENABLED PassStart(p)
               /\ \A k \in InFlight(p) :
                     ENABLED UrlDone(p, k, Response("200", <<"a">>))
               /\ (ChunkDone(p) /\ ~LastChunk(p)) => ENABLED NextChunk(p)
               /\ (ChunkDone(p) /\ LastChunk(p))
                     => ENABLED (/\ PassFinish(p, {"page"})
                                 /\ Completes(p)
                                 /\ configs'[p[2]].last_sync = passes[p].started
                                 /\ \A d \in Configs \ {p[2]} :
                                       /\ history'[d] = history[d]
                                       /\ configs'[d] = configs[d])

\* C20 witness: a pass is still awaiting a fetch while a pass of the same
\* tick for another config has committed its 'completed' record and its
\* last_sync.
C20_Witness ==
    \E p, q \in PassIds :
        /\ p # q
        /\ p[1] = q[1]
        /\ Suspended(q)
        /\ passes[p].pc = "completed"
        /\ configs[p[2]].last_sync # NULL
        /\ \E j \in 1..Len(history[p[2]]) :
              /\ history[p[2]][j].status = "completed"
              /\ history[p[2]][j].pass = p[1]

\* C21: the sync history is append-only: no step removes or modifies a
\* record of a config, the records a config has stay the first records it
\* has after the step.
C21_HistoryAppendOnly ==
    [][\A c \in Configs :
          /\ Len(history'[c]) >= Len(history[c])
          /\ SubSeq(history'[c], 1, Len(history[c])) = history[c]]_vars

\* C21 witness: a config has an 'error' record after an earlier record.
C21_Witness ==
    \E c \in Configs :
        /\ Len(history[c]) >= 2
        /\ history[c][Len(history[c])].status = "error"

\* C22: within one pass the sink is called exactly once for each URL
\* detected as changed, with that URL and its new content, and for no URL
\* that is unchanged or whose result is an Error: a pass that completes
\* makes one call for every URL whose text was extracted and whose digest
\* differs from the stored one, and no other call.
C22_SinkOncePerChangedUrl ==
    [][\A p \in PassIds :
          Completes(p) =>
              LET ps == passes[p]
                  calls == NewSinkCalls(p[2])
                  IsChanged(k) ==
                      /\ Extracted(ps.resp[k])
                      /\ ps.snapshot[ps.urls[k]] # _compute_content_hash(ps.resp[k].text)
              IN  \A k \in 1..Len(ps.urls) :
                      LET mine == { j \in 1..Len(calls) : calls[j].url = ps.urls[k] }
                      IN  /\ Cardinality(mine) = IF IsChanged(k) THEN 1 ELSE 0
                          /\ \A j \in mine : calls[j].content = ps.resp[k].text]_vars

\* C23: the last_content_hash and last_sync of a tracked URL are modified
\* only by a pass in which the extraction of that URL succeeded, a URL
\* whose result is an Error keeps them, and no step deletes a row.
C23_RowChangedOnlyBySuccess ==
    [][\A c \in Configs : \A u \in DOMAIN tracked[c] :
          /\ u \in DOMAIN tracked'[c]
          /\ tracked'[c][u] # tracked[c][u]
                => \E p \in PassIds :
                      /\ p[2] = c
                      /\ Completes(p)
                      /\ \E k \in 1..Len(passes[p].urls) :
                            /\ passes[p].urls[k] = u
                            /\ Extracted(passes[p].resp[k])]_vars

\* C24: a malformed configuration makes the run fail before any network
\* fetch is issued: a call whose selector is no CSS selector returns with no
\* fetch made for it, and without a per-URL Error result standing for the
\* failure.
C24_MalformedFailsBeforeFetch ==
    (request.pc = "done" /\ ~ValidSelector(request.content_selector))
        => /\ ~request.fetched
           /\ ~IsErrorString(request.result)

\* C25: process_urls cuts its input into consecutive chunks of batch_size
\* URLs and processes them one after another: while a run is under way
\* every URL before its current chunk has its result and no URL after the
\* chunk has been fetched, and when the run returns current_batch equals
\* total_batches, the number of URLs divided by batch_size and rounded up.
C25_ChunksInSequence ==
    [][\A p \in PassIds :
          LET n == Len(passes[p].urls)
          IN  /\ passes[p].pc = "fetching" =>
                    /\ passes[p].i % batch_size = 0
                    /\ \A k \in 1..n :
                          /\ k <= passes[p].i => passes[p].resp[k] # Pending
                          /\ k > passes[p].i + batch_size => passes[p].resp[k] = Pending
              /\ Returns(p) =>
                    /\ progress' # <<>>
                    /\ progress'[1].total_batches = (n + batch_size - 1) \div batch_size
                    /\ progress'[1].current_batch = progress'[1].total_batches]_vars

\* Two letters that differ at most by their case.
SameLetter(x, y) ==
    \/ x = y
    \/ {x, y} = {"a", "A"}
    \/ {x, y} = {"b", "B"}

\* sub occurs in s, in any letter case.
ContainsAnyCase(sub, s) ==
    \E k \in 0..(Len(s) - Len(sub)) :
        \A j \in 1..Len(sub) : SameLetter(sub[j], s[k + j])

\* The rejection of a text that does not match the search query.
QueryMismatch == <<"Content filtered:", "Does not match search query">>

\* C26: the search-query check precedes the content filters.  When a
\* search_query is given and the extracted text does not contain it in any
\* letter case, the result is the query-mismatch rejection whatever the
\* filters are; when the text contains it, the result is what the same call
\* without search_query gives.
C26_QueryBeforeFilters ==
    LET page == SelectBody(request.resp, request.content_selector)
    IN  (/\ request.pc = "done"
         /\ request.search_query # <<>>
         /\ Extracted(page))
            => IF ContainsAnyCase(request.search_query, page.text)
                   THEN /\ request.result
                               = process_url(page, <<>>, request.content_filters)
                        /\ request.result # QueryMismatch
                   ELSE request.result = QueryMismatch

\* C26 witness: a call whose text matches neither the query nor its
\* filters returned the query mismatch.
C26_Witness ==
    LET page == SelectBody(request.resp, request.content_selector)
    IN  /\ request.pc = "done"
        /\ Extracted(page)
        /\ request.search_query # <<>>
        /\ ~ContainsAnyCase(request.search_query, page.text)
        /\ request.content_filters # <<>>
        /\ ApplyFilters(page.text, request.content_filters) # <<>>
        /\ request.result = QueryMismatch

\* The error of a refused request: "Error: Access forbidden (HTTP <code>)".
Forbidden(code) == <<"Error:", "Access forbidden", code>>

\* The error of another status: "Error: HTTP <code>".
HTTPStatus(code) == <<"Error:", "HTTP", code>>

\* C27: a response with a status other than 200 never yields a Success or
\* a Filtered result, whatever its body, the query and the filters: status
\* 401 or 403 yields the Forbidden error, any other status the HTTP-status
\* error carrying the code.
C27_Non200IsAnError ==
    (/\ request.pc = "done"
     /\ request.resp.kind = "response"
     /\ request.resp.status # "200")
        => request.result = IF request.resp.status \in {"401", "403"}
                                THEN Forbidden(request.resp.status)
                                ELSE HTTPStatus(request.resp.status)

\* run_sync_cycle returns in this step: the loop goes from the gather to
\* its sleep.
CycleEnds == sched.pc = "gather" /\ sched'.pc = "sleep"

\* C28: run_sync_cycle returns only after every pass it dispatched in the
\* tick has finished: when the loop goes to sleep no pass of the cycle is
\* still running.
C28_CycleAwaitsEveryPass ==
    [][CycleEnds => \A p \in PassIds : p[1] = sched.cycle => Finished(p)]_vars

\* C29: at every moment the BatchProgress visible on the processor has
\* 0 <= processed_urls <= total_urls and 0 <= current_batch <=
\* total_batches, also while passes of several configs run through the one
\* BatchProcessor of SyncManager.
C29_ProgressWithinBounds ==
    progress # <<>> =>
        /\ 0 <= progress[1].processed_urls
        /\ progress[1].processed_urls <= progress[1].total_urls
        /\ 0 <= progress[1].current_batch
        /\ progress[1].current_batch <= progress[1].total_batches

\* The task of pass p ends in this step without the commit of a pass that
\* completes and without the return of a pass that found no URL.
EndsInFailure(p) ==
    /\ Ends(p)
    /\ ~Completes(p)
    /\ ~(p \in DOMAIN passes' /\ passes'[p].pc = "empty")

\* C30: a failed pass leaves the store of the tracked URLs as it was
\* before the pass: the updates issued for changed URLs earlier in the
\* pass are rolled back, the configs keep their last_sync, and the only
\* change of the store is the 'error' record appended for the config.
C30_FailedPassLeavesStore ==
    [][\A p \in PassIds :
          EndsInFailure(p) =>
              LET c == p[2]
                  n == Len(history[c])
              IN  /\ tracked' = tracked
                  /\ configs' = configs
                  /\ \A d \in Configs \ {c} : history'[d] = history[d]
                  /\ \/ history'[c] = history[c]
                     \/ /\ Len(history'[c]) = n + 1
                        /\ SubSeq(history'[c], 1, n) = history[c]
                        /\ history'[c][n + 1].status = "error"]_vars

\* C30 witness: a pass failed after the update and the sink call of a
\* changed URL: its 'error' record is the last of the config, the sink has
\* its call, and the row of the URL does not hold the digest of the content
\* sent.
C30_Witness ==
    \E c \in Configs :
        /\ history[c] # <<>>
        /\ history[c][Len(history[c])].status = "error"
        /\ \E j \in 1..Len(sink[c]) :
              /\ sink[c][j].pass = history[c][Len(history[c])].pass
              /\ tracked[c][sink[c][j].url].last_content_hash
                     # _compute_content_hash(sink[c][j].content)

\* C31: across the passes of a config the sink is called at most once for
\* a URL and a content as long as the content of the URL does not change
\* in between: two calls for the same URL with the same content have
\* between them a call for that URL with another content.
C31_ChangeForwardedOnce ==
    \A c \in Configs : \A j, k \in 1..Len(sink[c]) :
        (/\ j < k
         /\ sink[c][j].url = sink[c][k].url
         /\ sink[c][j].content = sink[c][k].content)
            => \E m \in (j + 1)..(k - 1) :
                  /\ sink[c][m].url = sink[c][j].url
                  /\ sink[c][m].content # sink[c][j].content

\* Pass p finds no tracked URL for its config and returns in this step.
ReturnsEmpty(p) ==
    /\ passes[p].pc = "created"
    /\ p \in DOMAIN passes'
    /\ passes'[p].pc = "empty"

\* C32: a pass over a config that has no tracked URL issues no fetch and
\* no sink call, appends no history record and leaves last_sync as it is;
\* and a tick whose query answers selects every active config without
\* tracked URLs whose last_sync is null, so that such a config is selected
\* again tick after tick.
C32_EmptyConfigPassedOver ==
    [][/\ \A p \in PassIds :
             ReturnsEmpty(p) =>
                 /\ tracked[p[2]] = <<>>
                 /\ history' = history
                 /\ sink' = sink
                 /\ configs' = configs
                 /\ tracked' = tracked
                 /\ progress' = progress
       /\ (IsTick /\ sched'.log # "Error in sync cycle") =>
             \A c \in Configs :
                 (/\ configs[c].active
                  /\ configs[c].last_sync = NULL
                  /\ tracked[c] = <<>>) => c \in Selected]_vars

\* C32 witness: the pass of the second tick over a config without tracked
\* URLs has returned, the config having no record and no last_sync after
\* the pass of the first tick.
C32_Witness ==
    /\ sched.cycle = 2
    /\ <<2, 1>> \in PassIds
    /\ passes[<<2, 1>>].pc = "empty"
    /\ tracked[1] = <<>>
    /\ history[1] = <<>>
    /\ sink[1] = <<>>
    /\ configs[1].last_sync = NULL

\* C33: in a sync pass a URL is counted in urls_failed only if its outcome
\* was an error, and every URL whose fetch failed is counted; a URL fetched
\* with status 200 whose extracted text is not empty is treated as a
\* success whatever the text starts with: when its digest differs from the
\* stored one, the digest is stored.
C33_FailedIffPipelineError ==
    [][\A p \in PassIds :
          Completes(p) =>
              LET ps == passes[p]
                  c == p[2]
                  rec == history'[c][Len(history'[c])]
                  all == 1..Len(ps.urls)
              IN  /\ rec.urls_failed >= Cardinality({ k \in all : Failure(ps.resp[k]) })
                  /\ rec.urls_failed <= Cardinality({ k \in all : ~Extracted(ps.resp[k]) })
                  /\ \A k \in all :
                        (/\ Extracted(ps.resp[k])
                         /\ ps.snapshot[ps.urls[k]] # _compute_content_hash(ps.resp[k].text)
                         /\ ps.urls[k] \in DOMAIN tracked'[c])
                            => tracked'[c][ps.urls[k]].last_content_hash
                                   = _compute_content_hash(ps.resp[k].text)]_vars

\* The passes there can be.
AllPasses == (1..MaxCycles) \X Configs

====
